---- MODULE Spec2Model ----
(***************************************************************************)
(* Live translation server: the utterance pipeline of src/server.js (the   *)
(* language-model variant) and of src/unnamed/part_000 (the translation-   *)
(* provider variant).  Texts and language codes are sequences of UTF-16    *)
(* code units; an ASCII unit is written as itself, any other unit as       *)
(* "uXXXX".                                                                *)
(***************************************************************************)
EXTENDS Integers, Sequences, FiniteSets, TLC

(* ------------------------------ bounds -------------------------------- *)
\* number of utterances (audio chunks or uploads) in one behaviour
NumUtterances == 2
\* largest value Date.now() takes in one behaviour
MaxNow == 1

\* the longest language code and the longest text enumerated in full
MaxCodeLen == 3

MaxTextLen == 3

(* ------------------------- characters and text ------------------------ *)
AsciiLower ==
  { "a", "b", "c", "d", "e", "f", "g", "h", "i", "j", "k", "l", "m",
    "n", "o", "p", "q", "r", "s", "t", "u", "v", "w", "x", "y", "z" }

AsciiUpperSeq ==
  << "A", "B", "C", "D", "E", "F", "G", "H", "I", "J", "K", "L", "M",
     "N", "O", "P", "Q", "R", "S", "T", "U", "V", "W", "X", "Y", "Z" >>

AsciiLowerSeq ==
  << "a", "b", "c", "d", "e", "f", "g", "h", "i", "j", "k", "l", "m",
     "n", "o", "p", "q", "r", "s", "t", "u", "v", "w", "x", "y", "z" >>

AsciiUpper == { AsciiUpperSeq[i] : i \in 1..26 }

Digit == { "0", "1", "2", "3", "4", "5", "6", "7", "8", "9" }

\* \w of a JavaScript regular expression
WordChar == AsciiLower \cup AsciiUpper \cup Digit \cup { "_" }

\* what String.prototype.trim removes and \s matches
WhiteSpace == { " ", "u0009", "u000a", "u000d", "u00a0" }

\* what "." of a regular expression does not match
LineTerminator == { "u000a", "u000d", "u2028", "u2029" }

\* the class [.,!?;:] of the trailing-punctuation strip
SentencePunct == { ".", ",", "!", "?", ";", ":" }

ItalianAccented_openai ==
  { "u00c0", "u00c1", "u00c2", "u00c4", "u00c8", "u00c9", "u00ca", "u00cb",
    "u00cc", "u00cd", "u00ce", "u00cf", "u00d2", "u00d3", "u00d4", "u00d6",
    "u00d9", "u00da", "u00db", "u00dc", "u00e0", "u00e1", "u00e2", "u00e4",
    "u00e8", "u00e9", "u00ea", "u00eb", "u00ec", "u00ed", "u00ee", "u00ef",
    "u00f2", "u00f3", "u00f4", "u00f6", "u00f9", "u00fa", "u00fb", "u00fc" }

ItalianAccented_google ==
  { "u00a0", "u00a1", "u00a2", "u00a4", "u00a8", "u00a9", "u00aa", "u00ab",
    "u00ac", "u00ad", "u00ae", "u00af", "u00b2", "u00b3", "u00b4", "u00b6",
    "u00b9", "u00ba", "u00bb", "u00bc", "u00c3", "u0152", "u0153", "u0160",
    "u0161", "u017d", "u02c6", "u2013", "u2019", "u201a", "u201c", "u201d",
    "u201e", "u2030", "u2039", "u203a", "u20ac", "u2122" }

CJKIdeograph ==
  { "u4e0d", "u4f60", "u53d1", "u5417", "u541d", "u597d", "u5b57", "u5e55",
    "u6253", "u70b9", "u8ba2", "u8bf7", "u8d4f", "u8d5e", "u8f6c", "u9605" }

Kana ==
  { "u3053", "u3061", "u306b", "u306f", "u3093" }

LatinExtended ==
  { "u00c0", "u00c1", "u00c2", "u00c3", "u00c4", "u00c8", "u00c9", "u00ca",
    "u00cb", "u00cc", "u00cd", "u00ce", "u00cf", "u00d2", "u00d3", "u00d4",
    "u00d6", "u00d9", "u00da", "u00db", "u00dc", "u00e0", "u00e1", "u00e2",
    "u00e3", "u00e4", "u00e8", "u00e9", "u00ea", "u00eb", "u00ec", "u00ed", "u00ee",
    "u00ef", "u00f0", "u00f2", "u00f3", "u00f4", "u00f6", "u00f9", "u00fa",
    "u00fb", "u00fc", "u00ff", "u0152", "u0153", "u0160", "u0161", "u0178", "u017d", "u017e" }

UpperNonAscii ==
  << "u00c0", "u00c1", "u00c2", "u00c3", "u00c4", "u00c8", "u00c9", "u00ca",
     "u00cb", "u00cc", "u00cd", "u00ce", "u00cf", "u00d2", "u00d3", "u00d4",
     "u00d6", "u00d9", "u00da", "u00db", "u00dc", "u0152", "u0160", "u0178",
     "u017d" >>

LowerNonAscii ==
  << "u00e0", "u00e1", "u00e2", "u00e3", "u00e4", "u00e8", "u00e9", "u00ea",
     "u00eb", "u00ec", "u00ed", "u00ee", "u00ef", "u00f2", "u00f3", "u00f4",
     "u00f6", "u00f9", "u00fa", "u00fb", "u00fc", "u0153", "u0161", "u00ff",
     "u017e" >>

\* the value JavaScript's null / undefined is modelled by (not a text)
NULL == << "<null>" >>

UpperSeq == AsciiUpperSeq \o UpperNonAscii

LowerSeq == AsciiLowerSeq \o LowerNonAscii

UpperSet == { UpperSeq[i] : i \in 1..Len(UpperSeq) }

LowerMap ==
  [ c \in UpperSet |->
      LowerSeq[CHOOSE i \in 1..Len(UpperSeq) : UpperSeq[i] = c] ]

\* String.prototype.toLowerCase
toLowerCase(s) ==
  [ i \in 1..Len(s) |-> IF s[i] \in UpperSet THEN LowerMap[s[i]] ELSE s[i] ]

SetMin(S) == CHOOSE x \in S : \A y \in S : x <= y

SetMax(S) == CHOOSE x \in S : \A y \in S : x >= y

\* String.prototype.trim
trim(s) ==
  LET keep == { i \in 1..Len(s) : s[i] \notin WhiteSpace }
  IN  IF keep = {} THEN << >> ELSE SubSeq(s, SetMin(keep), SetMax(keep))

\* s.replace(/[.,!?;:]+$/, '')
stripTrailingPunct(s) ==
  LET keep == { i \in 1..Len(s) : s[i] \notin SentencePunct }
  IN  IF keep = {} THEN << >> ELSE SubSeq(s, 1, SetMax(keep))

\* String.prototype.startsWith
startsWith(s, p) == Len(p) <= Len(s) /\ SubSeq(s, 1, Len(p)) = p

\* one element of a pattern against one code unit
ElemMatches(e, c) ==
  CASE e = "<any>"   -> c \notin LineTerminator
    [] e = "<digit>" -> c \in Digit
    [] e = "<word>"  -> c \in WordChar
    [] OTHER         -> e = c

MatchAt(p, s, i) ==
  /\ i + Len(p) - 1 <= Len(s)
  /\ \A k \in 1..Len(p) : ElemMatches(p[k], s[i + k - 1])

\* String.prototype.includes, and an unanchored RegExp.test
includes(s, p) == \E i \in 1..(Len(s) - Len(p) + 1) : MatchAt(p, s, i)

\* RegExp.test for the pattern shapes of hallucination_patterns
PatternTest(pat, s) ==
  CASE pat.k = "exact"  -> Len(s) = Len(pat.p) /\ MatchAt(pat.p, s, 1)
    [] pat.k = "sub"    -> includes(s, pat.p)
    [] pat.k = "gap"    ->
         \E i \in 1..Len(s) : \E j \in 1..Len(s) :
           /\ MatchAt(pat.p, s, i)
           /\ j >= i + Len(pat.p)
           /\ MatchAt(pat.q, s, j)
           /\ \A m \in (i + Len(pat.p))..(j - 1) : s[m] \notin LineTerminator
    [] pat.k = "repeat" ->
         \E i \in 1..(Len(s) - 4) :
           /\ s[i] \notin LineTerminator
           /\ \A m \in 1..4 : s[i + m] = s[i]
    [] OTHER            -> FALSE

\* the list of src/server.js
hallucination_patterns_openai ==
  <<
    [k |-> "sub", p |-> <<"/", " ", "/", "^", "b", "y", "e", "$">>, q |-> <<>>],
    [k |-> "exact", p |-> <<"b", "e", "e", "p">>, q |-> <<>>],
    [k |-> "sub", p |-> <<"/", " ", "/", "^", "o", "k", "a", "y", "$">>, q |-> <<>>],
    [k |-> "sub", p |-> <<"/", " ", "/", "^", "o", "k", "$">>, q |-> <<>>],
    [k |-> "exact", p |-> <<"h", "i">>, q |-> <<>>],
    [k |-> "sub", p |-> <<"/", " ", "/", "^", "h", "e", "l", "l", "o", "$">>, q |-> <<>>],
    [k |-> "sub", p |-> <<"/", " ", "/", "^", "y", "e", "a", "h", "$">>, q |-> <<>>],
    [k |-> "sub", p |-> <<"/", " ", "/", "^", "y", "e", "s", "$">>, q |-> <<>>],
    [k |-> "sub", p |-> <<"/", " ", "/", "^", "n", "o", "$">>, q |-> <<>>],
    [k |-> "exact", p |-> <<"u", "m">>, q |-> <<>>],
    [k |-> "exact", p |-> <<"u", "h">>, q |-> <<>>],
    [k |-> "exact", p |-> <<"o", "h">>, q |-> <<>>],
    [k |-> "exact", p |-> <<"a", "h">>, q |-> <<>>],
    [k |-> "sub", p |-> <<"/", " ", "/", "^", "y", "o", "u", "$">>, q |-> <<>>],
    [k |-> "exact", p |-> <<"4", "k">>, q |-> <<>>],
    [k |-> "exact", p |-> <<"m", "m", "-", "h", "m", "m">>, q |-> <<>>],
    [k |-> "exact", p |-> <<"h", "u", "h">>, q |-> <<>>],
    [k |-> "exact", p |-> <<"m", "m">>, q |-> <<>>],
    [k |-> "exact", p |-> <<"h", "m", "m">>, q |-> <<>>],
    [k |-> "exact", p |-> <<"o", "k", "a", "y", " ", "b", "y", "e">>, q |-> <<>>],
    [k |-> "exact", p |-> <<"b", "y", "e", " ", "b", "y", "e">>, q |-> <<>>],
    [k |-> "exact", p |-> <<"t", "h", "a", "n", "k", " ", "y", "o", "u">>, q |-> <<>>],
    [k |-> "exact", p |-> <<"y", "o", "u", " ", "k", "n", "o", "w">>, q |-> <<>>],
    [k |-> "exact", p |-> <<"i", " ", "m", "e", "a", "n">>, q |-> <<>>],
    [k |-> "sub", p |-> <<"/", " ", "/", "^", "r", "i", "g", "h", "t", " ", "n", "o", "w", "$">>, q |-> <<>>],
    [k |-> "sub", p |-> <<"/", " ", "/", "^", "o", "f", " ", "c", "o", "u", "r", "s", "e", "$">>, q |-> <<>>],
    [k |-> "exact", p |-> <<"t", "h", "a", "n", "k", " ", "y", "o", "u", "<any>", " ", "b", "y", "e", " ", "b", "y", "e">>, q |-> <<>>],
    [k |-> "gap", p |-> <<"i", "f", " ", "y", "o", "u", " ", "e", "n", "j", "o", "y", "e", "d">>, q |-> <<"s", "u", "b", "s", "c", "r", "i", "b", "e">>],
    [k |-> "sub", p |-> <<"p", "l", "e", "a", "s", "e", " ", "s", "u", "b", "s", "c", "r", "i", "b", "e", " ", "a", "n", "d", " ", "l", "i", "k", "e">>, q |-> <<>>],
    [k |-> "sub", p |-> <<"t", "h", "a", "n", "k", " ", "y", "o", "u", " ", "f", "o", "r", " ", "w", "a", "t", "c", "h", "i", "n", "g">>, q |-> <<>>],
    [k |-> "sub", p |-> <<"t", "h", "a", "n", "k", "s", " ", "f", "o", "r", " ", "w", "a", "t", "c", "h", "i", "n", "g">>, q |-> <<>>],
    [k |-> "sub", p |-> <<"t", "h", "a", "n", "k", " ", "y", "o", "u", " ", "f", "o", "r", " ", "l", "i", "s", "t", "e", "n", "i", "n", "g">>, q |-> <<>>],
    [k |-> "sub", p |-> <<"t", "h", "a", "n", "k", "s", " ", "f", "o", "r", " ", "l", "i", "s", "t", "e", "n", "i", "n", "g">>, q |-> <<>>],
    [k |-> "sub", p |-> <<"s", "h", "a", "r", "e", " ", "t", "h", "i", "s", " ", "v", "i", "d", "e", "o">>, q |-> <<>>],
    [k |-> "sub", p |-> <<"s", "u", "b", "s", "c", "r", "i", "b", "e">>, q |-> <<>>],
    [k |-> "sub", p |-> <<"l", "i", "k", "e", " ", "a", "n", "d", " ", "s", "u", "b", "s", "c", "r", "i", "b", "e">>, q |-> <<>>],
    [k |-> "sub", p |-> <<"d", "o", "n", "'", "t", " ", "f", "o", "r", "g", "e", "t", " ", "t", "o">>, q |-> <<>>],
    [k |-> "sub", p |-> <<"v", "i", "s", "i", "t", " ", "o", "u", "r", " ", "w", "e", "b", "s", "i", "t", "e">>, q |-> <<>>],
    [k |-> "sub", p |-> <<"f", "o", "l", "l", "o", "w", " ", "u", "s">>, q |-> <<>>],
    [k |-> "sub", p |-> <<"c", "h", "e", "c", "k", " ", "o", "u", "t">>, q |-> <<>>],
    [k |-> "sub", p |-> <<"c", "l", "i", "c", "k", " ", "t", "h", "e", " ", "l", "i", "n", "k">>, q |-> <<>>],
    [k |-> "sub", p |-> <<"s", "m", "a", "s", "h", " ", "t", "h", "a", "t", " ", "l", "i", "k", "e", " ", "b", "u", "t", "t", "o", "n">>, q |-> <<>>],
    [k |-> "sub", p |-> <<"r", "i", "n", "g", " ", "t", "h", "e", " ", "b", "e", "l", "l">>, q |-> <<>>],
    [k |-> "sub", p |-> <<"t", "h", "a", "t", "'", "s", " ", "i", "t", " ", "f", "o", "r", " ", "t", "h", "i", "s", " ", "v", "i", "d", "e", "o">>, q |-> <<>>],
    [k |-> "sub", p |-> <<"h", "o", "p", "e", " ", "y", "o", "u", " ", "e", "n", "j", "o", "y", "e", "d", " ", "i", "t">>, q |-> <<>>],
    [k |-> "sub", p |-> <<"s", "e", "e", " ", "y", "o", "u", " ", "i", "n", " ", "t", "h", "e", " ", "n", "e", "x", "t", " ", "o", "n", "e">>, q |-> <<>>],
    [k |-> "sub", p |-> <<"i", "'", "l", "l", " ", "s", "e", "e", " ", "y", "o", "u", " ", "i", "n", " ", "t", "h", "e", " ", "n", "e", "x", "t">>, q |-> <<>>],
    [k |-> "sub", p |-> <<"i", "f", " ", "y", "o", "u", " ", "h", "a", "v", "e", " ", "a", "n", "y", " ", "q", "u", "e", "s", "t", "i", "o", "n", "s", " ", "o", "r", " ", "c", "o", "m", "m", "e", "n", "t", "s">>, q |-> <<>>],
    [k |-> "sub", p |-> <<"p", "l", "e", "a", "s", "e", " ", "p", "o", "s", "t", " ", "t", "h", "e", "m", " ", "i", "n", " ", "t", "h", "e", " ", "c", "o", "m", "m", "e", "n", "t", "s">>, q |-> <<>>],
    [k |-> "sub", p |-> <<"p", "o", "s", "t", " ", "t", "h", "e", "m", " ", "i", "n", " ", "t", "h", "e", " ", "c", "o", "m", "m", "e", "n", "t", "s", " ", "s", "e", "c", "t", "i", "o", "n">>, q |-> <<>>],
    [k |-> "sub", p |-> <<"l", "e", "a", "v", "e", " ", "a", " ", "c", "o", "m", "m", "e", "n", "t", " ", "b", "e", "l", "o", "w">>, q |-> <<>>],
    [k |-> "sub", p |-> <<"l", "e", "t", " ", "m", "e", " ", "k", "n", "o", "w", " ", "i", "n", " ", "t", "h", "e", " ", "c", "o", "m", "m", "e", "n", "t", "s">>, q |-> <<>>],
    [k |-> "sub", p |-> <<"u5b57", "u5e55">>, q |-> <<>>],
    [k |-> "sub", p |-> <<"t", "h", "a", "t", "'", "s", " ", "a", "l", "l", " ", "f", "o", "r", " ", "t", "o", "d", "a", "y">>, q |-> <<>>],
    [k |-> "sub", p |-> <<"t", "h", "a", "t", "'", "s", " ", "a", "l", "l", " ", "f", "o", "r", " ", "n", "o", "w">>, q |-> <<>>],
    [k |-> "sub", p |-> <<"u", "n", "t", "i", "l", " ", "n", "e", "x", "t", " ", "t", "i", "m", "e">>, q |-> <<>>],
    [k |-> "sub", p |-> <<"s", "e", "e", " ", "y", "o", "u", " ", "n", "e", "x", "t", " ", "t", "i", "m", "e">>, q |-> <<>>],
    [k |-> "sub", p |-> <<"c", "a", "t", "c", "h", " ", "y", "o", "u", " ", "l", "a", "t", "e", "r">>, q |-> <<>>],
    [k |-> "sub", p |-> <<"s", "t", "a", "y", " ", "t", "u", "n", "e", "d">>, q |-> <<>>],
    [k |-> "sub", p |-> <<"c", "o", "m", "i", "n", "g", " ", "u", "p", " ", "n", "e", "x", "t">>, q |-> <<>>],
    [k |-> "sub", p |-> <<"t", "h", "a", "n", "k", "s", " ", "f", "o", "r", " ", "t", "u", "n", "i", "n", "g", " ", "i", "n">>, q |-> <<>>],
    [k |-> "sub", p |-> <<"t", "h", "a", "n", "k", "s", " ", "f", "o", "r", " ", "j", "o", "i", "n", "i", "n", "g">>, q |-> <<>>],
    [k |-> "sub", p |-> <<"h", "o", "p", "e", " ", "t", "o", " ", "s", "e", "e", " ", "y", "o", "u">>, q |-> <<>>],
    [k |-> "sub", p |-> <<"d", "o", "n", "'", "t", " ", "f", "o", "r", "g", "e", "t", " ", "t", "o", " ", "h", "i", "t">>, q |-> <<>>],
    [k |-> "sub", p |-> <<"m", "a", "k", "e", " ", "s", "u", "r", "e", " ", "t", "o", " ", "h", "i", "t">>, q |-> <<>>],
    [k |-> "sub", p |-> <<"<digit>", ":", "<digit>", "<digit>">>, q |-> <<>>],
    [k |-> "gap", p |-> <<"[">>, q |-> <<"]">>],
    [k |-> "sub", p |-> <<"(", "m", "u", "s", "i", "c", ")">>, q |-> <<>>],
    [k |-> "sub", p |-> <<"[", "m", "u", "s", "i", "c", "]">>, q |-> <<>>],
    [k |-> "sub", p |-> <<"ud83d", "udce2">>, q |-> <<>>],
    [k |-> "sub", p |-> <<"ud83c", "udfb5">>, q |-> <<>>],
    [k |-> "sub", p |-> <<"u266a">>, q |-> <<>>],
    [k |-> "sub", p |-> <<"ud83d", "udcf1">>, q |-> <<>>],
    [k |-> "sub", p |-> <<"ud83d", "udca1">>, q |-> <<>>],
    [k |-> "sub", p |-> <<"ud83d", "udd14">>, q |-> <<>>],
    [k |-> "sub", p |-> <<"ud83d", "udc4d">>, q |-> <<>>],
    [k |-> "sub", p |-> <<"u2764", "ufe0f">>, q |-> <<>>],
    [k |-> "sub", p |-> <<"ud83d", "udcaf">>, q |-> <<>>],
    [k |-> "sub", p |-> <<"w", "w", "w", ".">>, q |-> <<>>],
    [k |-> "sub", p |-> <<".", "c", "o", "m">>, q |-> <<>>],
    [k |-> "sub", p |-> <<"h", "t", "t", "p">>, q |-> <<>>],
    [k |-> "sub", p |-> <<"@", "<word>">>, q |-> <<>>],
    [k |-> "sub", p |-> <<"#", "<word>">>, q |-> <<>>],
    [k |-> "sub", p |-> <<"c", "a", "p", "t", "i", "o", "n">>, q |-> <<>>],
    [k |-> "sub", p |-> <<"s", "u", "b", "t", "i", "t", "l", "e">>, q |-> <<>>],
    [k |-> "sub", p |-> <<"c", "l", "o", "s", "e", "d", " ", "c", "a", "p", "t", "i", "o", "n">>, q |-> <<>>],
    [k |-> "sub", p |-> <<"/", " ", "/", "t", "h", "i", "s", " ", "a", "u", "d", "i", "o", " ", "c", "o", "n", "t", "a", "i", "n", "s", " ", "s", "p", "e", "e", "c", "h">>, q |-> <<>>],
    [k |-> "sub", p |-> <<"v", "i", "e", "w", "e", "r", " ", "d", "i", "s", "c", "r", "e", "t", "i", "o", "n", " ", "i", "s", " ", "a", "d", "v", "i", "s", "e", "d">>, q |-> <<>>],
    [k |-> "sub", p |-> <<"u8bf7", "u4e0d", "u541d", "u70b9", "u8d5e">>, q |-> <<>>],
    [k |-> "sub", p |-> <<"u8ba2", "u9605">>, q |-> <<>>],
    [k |-> "sub", p |-> <<"u8f6c", "u53d1">>, q |-> <<>>],
    [k |-> "sub", p |-> <<"u6253", "u8d4f">>, q |-> <<>>],
    [k |-> "repeat", p |-> <<>>, q |-> <<>>]
  >>

\* the list of src/unnamed/part_000
hallucination_patterns_google ==
  <<
    [k |-> "exact", p |-> <<"b", "y", "e">>, q |-> <<>>],
    [k |-> "exact", p |-> <<"b", "e", "e", "p">>, q |-> <<>>],
    [k |-> "exact", p |-> <<"o", "k", "a", "y">>, q |-> <<>>],
    [k |-> "exact", p |-> <<"o", "k">>, q |-> <<>>],
    [k |-> "exact", p |-> <<"h", "i">>, q |-> <<>>],
    [k |-> "exact", p |-> <<"h", "e", "l", "l", "o">>, q |-> <<>>],
    [k |-> "exact", p |-> <<"y", "e", "a", "h">>, q |-> <<>>],
    [k |-> "exact", p |-> <<"y", "e", "s">>, q |-> <<>>],
    [k |-> "exact", p |-> <<"n", "o">>, q |-> <<>>],
    [k |-> "exact", p |-> <<"u", "m">>, q |-> <<>>],
    [k |-> "exact", p |-> <<"u", "h">>, q |-> <<>>],
    [k |-> "exact", p |-> <<"o", "h">>, q |-> <<>>],
    [k |-> "exact", p |-> <<"a", "h">>, q |-> <<>>],
    [k |-> "exact", p |-> <<"o", "k", "a", "y", " ", "b", "y", "e">>, q |-> <<>>],
    [k |-> "exact", p |-> <<"b", "y", "e", " ", "b", "y", "e">>, q |-> <<>>],
    [k |-> "exact", p |-> <<"t", "h", "a", "n", "k", " ", "y", "o", "u">>, q |-> <<>>],
    [k |-> "exact", p |-> <<"y", "o", "u", " ", "k", "n", "o", "w">>, q |-> <<>>],
    [k |-> "exact", p |-> <<"i", " ", "m", "e", "a", "n">>, q |-> <<>>],
    [k |-> "exact", p |-> <<"r", "i", "g", "h", "t", " ", "n", "o", "w">>, q |-> <<>>],
    [k |-> "exact", p |-> <<"o", "f", " ", "c", "o", "u", "r", "s", "e">>, q |-> <<>>],
    [k |-> "gap", p |-> <<"i", "f", " ", "y", "o", "u", " ", "e", "n", "j", "o", "y", "e", "d">>, q |-> <<"s", "u", "b", "s", "c", "r", "i", "b", "e">>],
    [k |-> "sub", p |-> <<"p", "l", "e", "a", "s", "e", " ", "s", "u", "b", "s", "c", "r", "i", "b", "e", " ", "a", "n", "d", " ", "l", "i", "k", "e">>, q |-> <<>>],
    [k |-> "sub", p |-> <<"t", "h", "a", "n", "k", " ", "y", "o", "u", " ", "f", "o", "r", " ", "w", "a", "t", "c", "h", "i", "n", "g">>, q |-> <<>>],
    [k |-> "sub", p |-> <<"t", "h", "a", "n", "k", "s", " ", "f", "o", "r", " ", "w", "a", "t", "c", "h", "i", "n", "g">>, q |-> <<>>],
    [k |-> "sub", p |-> <<"t", "h", "a", "n", "k", " ", "y", "o", "u", " ", "f", "o", "r", " ", "l", "i", "s", "t", "e", "n", "i", "n", "g">>, q |-> <<>>],
    [k |-> "sub", p |-> <<"t", "h", "a", "n", "k", "s", " ", "f", "o", "r", " ", "l", "i", "s", "t", "e", "n", "i", "n", "g">>, q |-> <<>>],
    [k |-> "sub", p |-> <<"s", "h", "a", "r", "e", " ", "t", "h", "i", "s", " ", "v", "i", "d", "e", "o">>, q |-> <<>>],
    [k |-> "sub", p |-> <<"s", "u", "b", "s", "c", "r", "i", "b", "e">>, q |-> <<>>],
    [k |-> "sub", p |-> <<"l", "i", "k", "e", " ", "a", "n", "d", " ", "s", "u", "b", "s", "c", "r", "i", "b", "e">>, q |-> <<>>],
    [k |-> "sub", p |-> <<"d", "o", "n", "'", "t", " ", "f", "o", "r", "g", "e", "t", " ", "t", "o">>, q |-> <<>>],
    [k |-> "sub", p |-> <<"v", "i", "s", "i", "t", " ", "o", "u", "r", " ", "w", "e", "b", "s", "i", "t", "e">>, q |-> <<>>],
    [k |-> "sub", p |-> <<"f", "o", "l", "l", "o", "w", " ", "u", "s">>, q |-> <<>>],
    [k |-> "sub", p |-> <<"c", "h", "e", "c", "k", " ", "o", "u", "t">>, q |-> <<>>],
    [k |-> "sub", p |-> <<"c", "l", "i", "c", "k", " ", "t", "h", "e", " ", "l", "i", "n", "k">>, q |-> <<>>],
    [k |-> "sub", p |-> <<"s", "m", "a", "s", "h", " ", "t", "h", "a", "t", " ", "l", "i", "k", "e", " ", "b", "u", "t", "t", "o", "n">>, q |-> <<>>],
    [k |-> "sub", p |-> <<"r", "i", "n", "g", " ", "t", "h", "e", " ", "b", "e", "l", "l">>, q |-> <<>>],
    [k |-> "sub", p |-> <<"t", "h", "a", "t", "'", "s", " ", "i", "t", " ", "f", "o", "r", " ", "t", "h", "i", "s", " ", "v", "i", "d", "e", "o">>, q |-> <<>>],
    [k |-> "sub", p |-> <<"h", "o", "p", "e", " ", "y", "o", "u", " ", "e", "n", "j", "o", "y", "e", "d", " ", "i", "t">>, q |-> <<>>],
    [k |-> "sub", p |-> <<"s", "e", "e", " ", "y", "o", "u", " ", "i", "n", " ", "t", "h", "e", " ", "n", "e", "x", "t", " ", "o", "n", "e">>, q |-> <<>>],
    [k |-> "sub", p |-> <<"i", "'", "l", "l", " ", "s", "e", "e", " ", "y", "o", "u", " ", "i", "n", " ", "t", "h", "e", " ", "n", "e", "x", "t">>, q |-> <<>>],
    [k |-> "sub", p |-> <<"i", "f", " ", "y", "o", "u", " ", "h", "a", "v", "e", " ", "a", "n", "y", " ", "q", "u", "e", "s", "t", "i", "o", "n", "s", " ", "o", "r", " ", "c", "o", "m", "m", "e", "n", "t", "s">>, q |-> <<>>],
    [k |-> "sub", p |-> <<"p", "l", "e", "a", "s", "e", " ", "p", "o", "s", "t", " ", "t", "h", "e", "m", " ", "i", "n", " ", "t", "h", "e", " ", "c", "o", "m", "m", "e", "n", "t", "s">>, q |-> <<>>],
    [k |-> "sub", p |-> <<"p", "o", "s", "t", " ", "t", "h", "e", "m", " ", "i", "n", " ", "t", "h", "e", " ", "c", "o", "m", "m", "e", "n", "t", "s", " ", "s", "e", "c", "t", "i", "o", "n">>, q |-> <<>>],
    [k |-> "sub", p |-> <<"l", "e", "a", "v", "e", " ", "a", " ", "c", "o", "m", "m", "e", "n", "t", " ", "b", "e", "l", "o", "w">>, q |-> <<>>],
    [k |-> "sub", p |-> <<"l", "e", "t", " ", "m", "e", " ", "k", "n", "o", "w", " ", "i", "n", " ", "t", "h", "e", " ", "c", "o", "m", "m", "e", "n", "t", "s">>, q |-> <<>>],
    [k |-> "sub", p |-> <<"t", "h", "a", "t", "'", "s", " ", "a", "l", "l", " ", "f", "o", "r", " ", "t", "o", "d", "a", "y">>, q |-> <<>>],
    [k |-> "sub", p |-> <<"t", "h", "a", "t", "'", "s", " ", "a", "l", "l", " ", "f", "o", "r", " ", "n", "o", "w">>, q |-> <<>>],
    [k |-> "sub", p |-> <<"u", "n", "t", "i", "l", " ", "n", "e", "x", "t", " ", "t", "i", "m", "e">>, q |-> <<>>],
    [k |-> "sub", p |-> <<"s", "e", "e", " ", "y", "o", "u", " ", "n", "e", "x", "t", " ", "t", "i", "m", "e">>, q |-> <<>>],
    [k |-> "sub", p |-> <<"c", "a", "t", "c", "h", " ", "y", "o", "u", " ", "l", "a", "t", "e", "r">>, q |-> <<>>],
    [k |-> "sub", p |-> <<"s", "t", "a", "y", " ", "t", "u", "n", "e", "d">>, q |-> <<>>],
    [k |-> "sub", p |-> <<"c", "o", "m", "i", "n", "g", " ", "u", "p", " ", "n", "e", "x", "t">>, q |-> <<>>],
    [k |-> "sub", p |-> <<"t", "h", "a", "n", "k", "s", " ", "f", "o", "r", " ", "t", "u", "n", "i", "n", "g", " ", "i", "n">>, q |-> <<>>],
    [k |-> "sub", p |-> <<"t", "h", "a", "n", "k", "s", " ", "f", "o", "r", " ", "j", "o", "i", "n", "i", "n", "g">>, q |-> <<>>],
    [k |-> "sub", p |-> <<"h", "o", "p", "e", " ", "t", "o", " ", "s", "e", "e", " ", "y", "o", "u">>, q |-> <<>>],
    [k |-> "sub", p |-> <<"d", "o", "n", "'", "t", " ", "f", "o", "r", "g", "e", "t", " ", "t", "o", " ", "h", "i", "t">>, q |-> <<>>],
    [k |-> "sub", p |-> <<"m", "a", "k", "e", " ", "s", "u", "r", "e", " ", "t", "o", " ", "h", "i", "t">>, q |-> <<>>],
    [k |-> "sub", p |-> <<"<digit>", ":", "<digit>", "<digit>">>, q |-> <<>>],
    [k |-> "gap", p |-> <<"[">>, q |-> <<"]">>],
    [k |-> "sub", p |-> <<"(", "m", "u", "s", "i", "c", ")">>, q |-> <<>>],
    [k |-> "sub", p |-> <<"[", "m", "u", "s", "i", "c", "]">>, q |-> <<>>],
    [k |-> "sub", p |-> <<"u00f0", "u0178", "u201c", "u00a2">>, q |-> <<>>],
    [k |-> "sub", p |-> <<"u00f0", "u0178", "u017d", "u00b5">>, q |-> <<>>],
    [k |-> "sub", p |-> <<"u00e2", "u2122", "u00aa">>, q |-> <<>>],
    [k |-> "sub", p |-> <<"u00f0", "u0178", "u201c", "u00b1">>, q |-> <<>>],
    [k |-> "sub", p |-> <<"u00f0", "u0178", "u2019", "u00a1">>, q |-> <<>>],
    [k |-> "sub", p |-> <<"u00f0", "u0178", "u201d", "u201d">>, q |-> <<>>],
    [k |-> "sub", p |-> <<"u00f0", "u0178", "u2018">>, q |-> <<>>],
    [k |-> "sub", p |-> <<"u00e2", "u00a4", "u00ef", "u00b8">>, q |-> <<>>],
    [k |-> "sub", p |-> <<"u00f0", "u0178", "u2019", "u00af">>, q |-> <<>>],
    [k |-> "sub", p |-> <<"w", "w", "w", ".">>, q |-> <<>>],
    [k |-> "sub", p |-> <<".", "c", "o", "m">>, q |-> <<>>],
    [k |-> "sub", p |-> <<"h", "t", "t", "p">>, q |-> <<>>],
    [k |-> "sub", p |-> <<"@", "<word>">>, q |-> <<>>],
    [k |-> "sub", p |-> <<"#", "<word>">>, q |-> <<>>],
    [k |-> "sub", p |-> <<"c", "a", "p", "t", "i", "o", "n">>, q |-> <<>>],
    [k |-> "sub", p |-> <<"s", "u", "b", "t", "i", "t", "l", "e">>, q |-> <<>>],
    [k |-> "sub", p |-> <<"c", "l", "o", "s", "e", "d", " ", "c", "a", "p", "t", "i", "o", "n">>, q |-> <<>>],
    [k |-> "repeat", p |-> <<>>, q |-> <<>>]
  >>

hallucination_patterns(v) ==
  IF v = "openai" THEN hallucination_patterns_openai
                  ELSE hallucination_patterns_google

(* -------------------- language codes (both variants) ------------------ *)
EN == << "e", "n" >>

IT == << "i", "t" >>

ZH == << "z", "h" >>

AUTO == << "a", "u", "t", "o" >>

\* const TARGET_LANGUAGES = ['it', 'zh', 'en']
TARGET_LANGUAGES == << IT, ZH, EN >>

Targets == { TARGET_LANGUAGES[i] : i \in 1..Len(TARGET_LANGUAGES) }

\* JavaScript truthiness of a value that is a string, null or undefined
\* values that are not text: the numbers 0 and 42, false, true, an object
NonTextFalsy == { << "<0>" >>, << "<false>" >> }

NonTextTruthy == { << "<42>" >>, << "<true>" >>, << "<object>" >> }

\* typeof x === 'string'
IsText(x) == x # NULL /\ x \notin NonTextFalsy \cup NonTextTruthy

Truthy(s) == s # NULL /\ s # << >> /\ s \notin NonTextFalsy

\* mutant: only the exact code 'zh' is taken for Chinese
normalizeLanguageCode_ExactZh(langCode) == IF ~Truthy(langCode) THEN NULL ELSE toLowerCase(langCode)

normalizeLanguageCode(langCode) ==
  IF ~Truthy(langCode) THEN NULL
  ELSE LET normalized == toLowerCase(langCode)
       IN  IF startsWith(normalized, ZH) THEN ZH ELSE normalized

supportedNormalized == { EN, IT, ZH }

isSupportedLanguage(langCode) ==
  IF ~Truthy(langCode) THEN FALSE
  ELSE normalizeLanguageCode(langCode) \in supportedNormalized

(* ----------------------- transcription validator ---------------------- *)
\* const cleanText = ...: part_000 does not strip trailing punctuation
cleanTextOf(v, text) ==
  IF v = "openai" THEN stripTrailingPunct(toLowerCase(trim(text)))
                  ELSE toLowerCase(trim(text))

HasAny(s, class) == \E i \in 1..Len(s) : s[i] \in class

hasEnglish(clean) == HasAny(clean, AsciiLower \cup AsciiUpper)

hasItalian(v, clean) ==
  HasAny(clean, AsciiLower \cup AsciiUpper \cup
                (IF v = "openai" THEN ItalianAccented_openai
                                 ELSE ItalianAccented_google))

hasChinese(clean) == HasAny(clean, CJKIdeograph)

\* part_000 only: hiragana or katakana present
hasJapanese(clean) == HasAny(clean, Kana)

matchesHallucination(v, clean) ==
  LET pats == hallucination_patterns(v)
  IN  \E n \in 1..Len(pats) : PatternTest(pats[n], clean)

\* (cleanText.match(/[a-zA-ZÀ-ſ一-鿿]/g) || []).length
letterCount(clean) ==
  Cardinality({ i \in 1..Len(clean) :
                  clean[i] \in AsciiLower \cup AsciiUpper \cup LatinExtended
                               \cup CJKIdeograph })

\* cleanText.split(/\s+/).filter(word => word.length > 0), as index ranges
wordStarts(clean) ==
  { i \in 1..Len(clean) :
      clean[i] \notin WhiteSpace /\ (i = 1 \/ clean[i - 1] \in WhiteSpace) }

firstWord(clean) ==
  LET b == SetMin(wordStarts(clean))
      e == SetMax({ j \in b..Len(clean) :
                      \A m \in b..j : clean[m] \notin WhiteSpace })
  IN  SubSeq(clean, b, e)

\* mutant: the share of letters is tested before the patterns
rejectingRule_RatioFirst(v, text) ==
  IF ~Truthy(text) \/ ~IsText(text) THEN 1
  ELSE
    LET clean == cleanTextOf(v, text)
    IN  IF Len(clean) < 2 THEN 1
        ELSE IF v = "google" /\ hasJapanese(clean) THEN 6
        ELSE IF ~hasEnglish(clean) /\ ~hasItalian(v, clean) /\ ~hasChinese(clean)
          THEN 2
        ELSE IF 10 * letterCount(clean) < 3 * Len(clean) THEN 4
        ELSE IF matchesHallucination(v, clean) THEN 3
        ELSE IF /\ Cardinality(wordStarts(clean)) = 1
                /\ LET word == firstWord(clean)
                   IN  Len(word) < 2 \/ \A i \in 1..Len(word) : word[i] \in Digit
          THEN 5
        ELSE 0

\* the rule that rejects the text, 0 when no rule does
rejectingRule(v, text) ==
  IF ~Truthy(text) \/ ~IsText(text) THEN 1
  ELSE
    LET clean == cleanTextOf(v, text)
    IN  IF Len(clean) < 2 THEN 1
        ELSE IF v = "google" /\ hasJapanese(clean) THEN 6
        ELSE IF ~hasEnglish(clean) /\ ~hasItalian(v, clean) /\ ~hasChinese(clean)
          THEN 2
        ELSE IF matchesHallucination(v, clean) THEN 3
        \* letterCount / totalLength < 0.3
        ELSE IF 10 * letterCount(clean) < 3 * Len(clean) THEN 4
        ELSE IF /\ Cardinality(wordStarts(clean)) = 1
                /\ LET word == firstWord(clean)
                   IN  Len(word) < 2 \/ \A i \in 1..Len(word) : word[i] \in Digit
          THEN 5
        ELSE 0

isValidTranscription(v, text) == rejectingRule(v, text) = 0

(* ------------------------ external capabilities ----------------------- *)
\* what an awaited capability call settles with: a value, or a rejection
Resolved(body) == [ok |-> TRUE, body |-> body]

Rejected == [ok |-> FALSE, body |-> << >>]

\* the first utterance to arrive draws its inputs from the full pools; the
\* utterances arriving after it are concurrent traffic drawn from reduced
\* pools
IsObserved(u) == u = 1

Subscribe ==
  << "S", "u", "b", "s", "c", "r", "i", "b", "e", " ", "t", "o", " ",
     "m", "y", " ", "c", "h", "a", "n", "n", "e", "l" >>

Ciao ==
  << "C", "i", "a", "o", ",", " ", "c", "o", "m", "e", " ",
     "s", "t", "a", "i", "?" >>

\* source-language hints a client sends (absent, empty, 'auto', a language)
HintPool(u) == IF IsObserved(u) THEN { NULL, << >>, AUTO, IT } ELSE { NULL }

\* texts the transcription capability returns
TranscriptPool ==
  { << >>,
    << " ", "u000a", " " >>,
    Subscribe,
    Ciao }

TranscriptPoolOf(u) == IF IsObserved(u) THEN TranscriptPool ELSE { Ciao }

\* what the detection capability answers: the message content of the
\* language-model reply, or detectedSourceLanguage of the provider reply
\* (<< >>: an empty reply, or no detectedSourceLanguage in the reply)
DetectReplyPool ==
  { IT,
    << "E", "N", "." >>,
    << "z", "h", "-", "C", "N" >>,
    << "j", "a" >>,
    << >> }

DetectReplyPoolOf(u) == IF IsObserved(u) THEN DetectReplyPool ELSE { IT }

\* the transcripts of the pool that isValidTranscription accepts, per variant
validTranscripts ==
  [ v \in { "openai", "google" } |->
      { t \in TranscriptPool : isValidTranscription(v, t) } ]

\* mutant: the validity filter is skipped
transcribeAudioReturn_Unfiltered(v, body) == body

\* what transcribeAudio returns for the text the capability answered
transcribeAudioReturn(v, body) ==
  IF (IF body \in TranscriptPool THEN body \in validTranscripts[v]
                                 ELSE isValidTranscription(v, body))
    THEN body ELSE NULL

\* mutant: the test lets null and blank text through
proceedsToTranslate_Always(transcription) == TRUE

\* if (transcription && transcription.trim())
proceedsToTranslate(transcription) ==
  Truthy(transcription) /\ Truthy(trim(transcription))

\* the text the translation capability answers for one target
TranslationFor(targetLang) == << " ", "[" >> \o targetLang \o << "]", "u000a" >>

\* what a translation call settles with
TranslateReplyPoolOf(u, targetLang) ==
  IF IsObserved(u) THEN { Rejected, Resolved(TranslationFor(targetLang)) }
                   ELSE { Resolved(TranslationFor(targetLang)) }

(* ------------------------------ detection ----------------------------- *)
\* detectedLang.replace(/[^a-z-]/g, '')
keepLowerAndDash(s) == SelectSeq(s, LAMBDA c : c \in AsciiLower \cup { "-" })

\* detectLanguageWithOpenAI, from the reply's message content on
detectLanguageWithOpenAI(content) ==
  LET d0 == keepLowerAndDash(toLowerCase(trim(content)))
      d1 == IF includes(d0, EN) THEN EN ELSE d0
      d2 == IF includes(d1, IT) THEN IT ELSE d1
      d3 == IF includes(d2, ZH) \/ includes(d2, << "c", "h", "i" >>)
              THEN ZH ELSE d2
  IN  d3

\* mutant: the detected language is used without the supported test
detectBlock_SupportUnchecked(v, sourceLanguage, reply) == IF ~reply.ok THEN NULL ELSE IF v = "openai" THEN detectLanguageWithOpenAI(reply.body) ELSE IF Truthy(reply.body) THEN reply.body ELSE sourceLanguage

\* the detection block of translateText: the detected language, or NULL
\* where translateText returns null
detectBlock(v, sourceLanguage, reply) ==
  IF ~reply.ok THEN NULL
  ELSE IF v = "openai"
    THEN LET languageDetection == detectLanguageWithOpenAI(reply.body)
         IN  IF \/ ~Truthy(languageDetection)
                \/ ~isSupportedLanguage(normalizeLanguageCode(languageDetection))
               THEN NULL
               ELSE languageDetection
    ELSE IF Truthy(reply.body)
      THEN IF ~isSupportedLanguage(normalizeLanguageCode(reply.body))
             THEN NULL
             ELSE reply.body
      ELSE sourceLanguage

(* ------------------------------- fan-out ------------------------------ *)
TranslationError ==
  << "[", "T", "r", "a", "n", "s", "l", "a", "t", "i", "o", "n", " ",
     "E", "r", "r", "o", "r", "]" >>

\* translations[targetLang] = value
SetSlot(translations, targetLang, value) ==
  (targetLang :> value) @@ translations

\* what translateWithOpenAI / callGoogleTranslateAPI(...).translatedText
\* gives for a resolved call
translatedText(v, body) == IF v = "openai" THEN trim(body) ELSE body

\* mutant: a failed call leaves its slot unset
settleTarget_DropFailed(v, translations, i, reply) ==
  [ translations |->
      IF reply.ok
        THEN SetSlot(translations, TARGET_LANGUAGES[i], translatedText(v, reply.body))
        ELSE translations,
    next |-> i + 1 ]

\* mutant: a failed call fills its slot and ends the loop
settleTarget_AbortOnFailure(v, translations, i, reply) ==
  [ translations |->
      SetSlot(translations, TARGET_LANGUAGES[i],
              IF reply.ok THEN translatedText(v, reply.body)
                          ELSE TranslationError),
    next |-> IF reply.ok THEN i + 1 ELSE Len(TARGET_LANGUAGES) + 1 ]

\* one iteration of the loop whose translation call has settled: the try
\* fills the slot, the catch fills it with the sentinel, the loop goes on
\* mutant: a failed translation call is tried again
settleTarget_RetryFailed(v, translations, i, reply) == IF reply.ok THEN [translations |-> SetSlot(translations, TARGET_LANGUAGES[i], translatedText(v, reply.body)), next |-> i + 1] ELSE [translations |-> translations, next |-> i]

settleTarget(v, translations, i, reply) ==
  [ translations |->
      SetSlot(translations, TARGET_LANGUAGES[i],
              IF reply.ok THEN translatedText(v, reply.body)
                          ELSE TranslationError),
    next |-> i + 1 ]

\* mutant: source and target are compared without canonicalization
RECURSIVE forTargets_NoNormalize(_, _, _, _)
forTargets_NoNormalize(text, detectedLanguage, translations, i) ==
  IF i > Len(TARGET_LANGUAGES)
    THEN [translations |-> translations, target |-> i]
  ELSE IF detectedLanguage = TARGET_LANGUAGES[i]
    THEN forTargets_NoNormalize(text, detectedLanguage,
                    SetSlot(translations, TARGET_LANGUAGES[i], text), i + 1)
  ELSE [translations |-> translations, target |-> i]

\* the for loop of translateText from target i on, up to the next await:
\* same-language targets are filled with the text without a call
RECURSIVE forTargets(_, _, _, _)
forTargets(text, detectedLanguage, translations, i) ==
  IF i > Len(TARGET_LANGUAGES)
    THEN [translations |-> translations, target |-> i]
  ELSE IF normalizeLanguageCode(detectedLanguage)
            = normalizeLanguageCode(TARGET_LANGUAGES[i])
    THEN forTargets(text, detectedLanguage,
                    SetSlot(translations, TARGET_LANGUAGES[i], text), i + 1)
  ELSE [translations |-> translations, target |-> i]

(* ------------------------------ transport ----------------------------- *)
NoTranslations == << >>

Payload(type, status, message, sourceLanguage, sourceText, translations) ==
  [ type |-> type, status |-> status, message |-> message,
    sourceLanguage |-> sourceLanguage, sourceText |-> sourceText,
    translations |-> translations ]

ErrorPayload(type, status, message) ==
  Payload(type, status, message, NULL, NULL, NoTranslations)

\* mutant: the upload handler answers only a translation
branchPayloads_UploadSilent(channel, branch, lang, text, translations) ==
  IF branch = "translated"
    THEN << Payload(IF channel = "ws" THEN "translation_result" ELSE "json",
                    IF channel = "ws" THEN 0 ELSE 200, "", lang, text,
                    translations) >>
    ELSE << >>

\* what the handler sends in the branch it took, before the clean-up
branchPayloads(channel, branch, lang, text, translations) ==
  IF channel = "ws"
    THEN IF branch = "translated"
           THEN << Payload("translation_result", 0, "", lang, text,
                           translations) >>
           ELSE << >>
    ELSE IF branch = "translated"
           THEN << Payload("json", 200, "", lang, text, translations) >>
         ELSE IF branch = "unsupported"
           THEN << ErrorPayload("json", 200, "Unsupported language detected") >>
         ELSE << ErrorPayload("json", 200, "No valid speech detected") >>

\* what the catch block sends; `sentAlready`: the response was sent before
catchPayloads(channel, sentAlready) ==
  IF channel = "ws"
    THEN << ErrorPayload("error", 0, "Failed to process audio") >>
  ELSE IF sentAlready
    THEN << >>
  ELSE << ErrorPayload("json", 500, "Failed to process audio file") >>

\* mutant: 'auto' is forwarded like any other hint
forwardedLanguage_ForwardAuto(language) == IF Truthy(language) THEN language ELSE NULL

\* transcriptionParams.language: the hint forwarded to the capability
forwardedLanguage(language) ==
  IF Truthy(language) /\ language # AUTO THEN language ELSE NULL

\* mutant: the handler hands the client's hint to translateText
translateTextArgument_Hint(hint) == IF Truthy(hint) THEN hint ELSE AUTO

\* the sourceLanguage argument of the handlers' call translateText(transcription, 'auto')
translateTextArgument(hint) == AUTO

(* ------------------------------- state -------------------------------- *)
VARIABLES
  variant,   \* "openai": src/server.js, "google": src/unnamed/part_000
  now,       \* Date.now()
  files,     \* the paths that exist under uploads/
  utt,       \* per utterance: the position and locals of its handler run
  probe      \* one call of a pure function: its name, argument and result

vars == << variant, now, files, utt, probe >>

Utterances == 1..NumUtterances

NoPath == << "none", 0 >>

\* a capability call: the request, and what it settled with once it has
Call(op, language, target) ==
  [ op |-> op, language |-> language, target |-> target,
    settled |-> FALSE, reply |-> Rejected ]

\* the awaited call (the last one issued) settles with `reply`
Settle(calls, reply) ==
  [calls EXCEPT ![Len(calls)] = [@ EXCEPT !.settled = TRUE, !.reply = reply]]

\* no pure function is being called on its own
NoProbe == [ fn |-> "none", arg |-> NULL, done |-> FALSE, out |-> NULL ]

Idle ==
  [ pc |-> "idle", channel |-> "none", hint |-> NULL, tempFilePath |-> NoPath,
    transcription |-> NULL,
    detectedLanguage |-> NULL, translations |-> NoTranslations, target |-> 0,
    calls |-> << >>, branch |-> "none", threw |-> FALSE, sent |-> << >> ]

Init ==
  /\ variant \in { "openai", "google" }
  /\ now = 0
  /\ files = {}
  /\ utt = [ u \in Utterances |-> Idle ]
  /\ probe = NoProbe

\* utterances are numbered in their order of arrival
MayArrive(u) ==
  /\ utt[u].pc = "idle"
  /\ IF u = 1 THEN TRUE ELSE utt[u - 1].pc # "idle"

\* fs.unlinkSync(path): the file is removed, or the call throws (ENOENT)
unlinkSync(fs, path) ==
  IF path \in fs THEN [files |-> fs \ { path }, throws |-> FALSE]
                 ELSE [files |-> fs, throws |-> TRUE]

\* the rest of the handler once the branch is known: send, clean up, and
\* the catch block if the clean-up throws
Finish(u, r, branch) ==
  LET first == branchPayloads(r.channel, branch, r.detectedLanguage,
                              r.transcription, r.translations)
      rm    == unlinkSync(files, r.tempFilePath)
      last  == IF rm.throws THEN catchPayloads(r.channel, first # << >>)
                            ELSE << >>
  IN  /\ files' = rm.files
      /\ utt' = [utt EXCEPT ![u] =
                   [r EXCEPT !.pc = "done", !.branch = branch,
                             !.threw = rm.throws,
                             !.sent = r.sent \o first \o last]]

\* a rejected await outside translateText: the catch block of the handler
Catch(u, r) ==
  /\ files' = files
  /\ utt' = [utt EXCEPT ![u] =
               [r EXCEPT !.pc = "done", !.branch = "error", !.threw = TRUE,
                         !.sent = r.sent \o catchPayloads(r.channel, FALSE)]]

\* mutant: the call for the following target is issued together with the
\* call for the current one, without awaiting the first
Continue_TwoAtOnce(u, r, translations, i) ==
  LET lp == forTargets(r.transcription, r.detectedLanguage, translations, i)
      nx == forTargets(r.transcription, r.detectedLanguage, lp.translations,
                       lp.target + 1)
      r2 == [r EXCEPT !.translations = lp.translations, !.target = lp.target]
      one == Append(r.calls, Call("translate", r.detectedLanguage,
                                  TARGET_LANGUAGES[lp.target]))
  IN  IF lp.target <= Len(TARGET_LANGUAGES)
        THEN /\ files' = files
             /\ utt' = [utt EXCEPT ![u] =
                  [r2 EXCEPT !.pc = "translating",
                             !.calls =
                                IF nx.target <= Len(TARGET_LANGUAGES)
                                  THEN Append(one, Call("translate",
                                                r.detectedLanguage,
                                                TARGET_LANGUAGES[nx.target]))
                                  ELSE one]]
        ELSE IF Truthy(r2.detectedLanguage)
          THEN Finish(u, r2, "translated")
          ELSE Finish(u, r2, "unsupported")

\* translateText after the detection block, and after each settled call:
\* await the next translation call, or return and finish the handler
Continue(u, r, translations, i) ==
  LET lp == forTargets(r.transcription, r.detectedLanguage, translations, i)
      r2 == [r EXCEPT !.translations = lp.translations, !.target = lp.target]
  IN  IF lp.target <= Len(TARGET_LANGUAGES)
        THEN /\ files' = files
             /\ utt' = [utt EXCEPT ![u] =
                  [r2 EXCEPT !.pc = "translating",
                             !.calls = Append(r.calls,
                                Call("translate", r.detectedLanguage,
                                     TARGET_LANGUAGES[lp.target]))]]
        ELSE IF Truthy(r2.detectedLanguage)
          THEN Finish(u, r2, "translated")
          ELSE Finish(u, r2, "unsupported")

(* ------------------------------ actions ------------------------------- *)
\* ws.on('message') with an audio_chunk: handleAudioChunk up to its first await
ReceiveChunk(u) ==
  /\ MayArrive(u)
  /\ \E hint \in HintPool(u) : \E t \in now..MaxNow :
       LET path == << "chunk", t >>
       IN  /\ now' = t
           /\ files' = files \cup { path }
           /\ utt' = [utt EXCEPT ![u] =
                [Idle EXCEPT !.pc = "transcribing", !.channel = "ws",
                             !.hint = hint, !.tempFilePath = path,
                             !.calls = << Call("transcribe",
                                                forwardedLanguage(hint), NULL) >>]]
  /\ UNCHANGED << variant, probe >>

\* POST /upload-audio up to its first await; multer has stored the file
ReceiveUpload(u) ==
  /\ MayArrive(u)
  /\ IsObserved(u)
  /\ \E hint \in HintPool(u) :
       LET path == << "upload", u >>
           sourceLanguage == IF Truthy(hint) THEN hint ELSE AUTO
       IN  /\ files' = files \cup { path }
           /\ utt' = [utt EXCEPT ![u] =
                [Idle EXCEPT !.pc = "transcribing", !.channel = "upload",
                             !.hint = hint, !.tempFilePath = path,
                             !.calls = << Call("transcribe",
                                                forwardedLanguage(sourceLanguage),
                                                NULL) >>]]
  /\ UNCHANGED << variant, now, probe >>

\* POST /upload-audio without a file: 400, nothing stored
ReceiveUploadNoFile(u) ==
  /\ MayArrive(u)
  /\ IsObserved(u)
  /\ utt' = [utt EXCEPT ![u] =
       [Idle EXCEPT !.pc = "done", !.channel = "upload", !.branch = "no_file",
                    !.sent = << ErrorPayload("json", 400, "No audio file provided") >>]]
  /\ UNCHANGED << variant, now, files, probe >>

\* the transcription call settles: the rest of transcribeAudio, then the
\* handler up to the detection await or to its end
TranscribeSettles(u) ==
  /\ utt[u].pc = "transcribing"
  /\ \E reply \in { Rejected } \cup { Resolved(t) : t \in TranscriptPoolOf(u) } :
       LET r0 == [utt[u] EXCEPT !.calls = Settle(@, reply)]
       IN  IF ~reply.ok
             THEN Catch(u, r0)
             ELSE LET r == [r0 EXCEPT !.transcription =
                                transcribeAudioReturn(variant, reply.body)]
                  IN  IF proceedsToTranslate(r.transcription)
                        THEN /\ files' = files
                             /\ utt' = [utt EXCEPT ![u] =
                                  [r EXCEPT !.pc = "detecting",
                                            !.calls = Append(r.calls,
                                               Call("detect", translateTextArgument(r.hint),
                                                    IF variant = "google"
                                                      THEN EN ELSE NULL))]]
                        ELSE Finish(u, r, "no_valid_speech")
  /\ UNCHANGED << variant, now, probe >>

\* the detection call settles: the detection block of translateText, then the
\* loop up to its first await
DetectSettles(u) ==
  /\ utt[u].pc = "detecting"
  /\ \E reply \in { Rejected } \cup { Resolved(d) : d \in DetectReplyPoolOf(u) } :
       LET detected == detectBlock(variant, translateTextArgument(utt[u].hint), reply)
           r == [utt[u] EXCEPT !.calls = Settle(@, reply),
                               !.detectedLanguage = detected]
       IN  IF detected = NULL
             THEN Finish(u, r, "unsupported")
             ELSE Continue(u, r, NoTranslations, 1)
  /\ UNCHANGED << variant, now, probe >>

\* the translation call of the current target settles: its slot is filled
\* and the loop goes on
TranslateSettles(u) ==
  /\ utt[u].pc = "translating"
  /\ \E reply \in TranslateReplyPoolOf(u, TARGET_LANGUAGES[utt[u].target]) :
       LET r  == [utt[u] EXCEPT !.calls = Settle(@, reply)]
           st == settleTarget(variant, r.translations, r.target, reply)
       IN  Continue(u, r, st.translations, st.next)
  /\ UNCHANGED << variant, now, probe >>

Next ==
  \E u \in Utterances :
    \/ ReceiveChunk(u)
    \/ ReceiveUpload(u)
    \/ ReceiveUploadNoFile(u)
    \/ TranscribeSettles(u)
    \/ DetectSettles(u)
    \/ TranslateSettles(u)

Spec == Init /\ [][Next]_vars

\* every capability call that has been issued settles in the end; nothing
\* obliges a client to send
SpecLive ==
  /\ Spec
  /\ \A u \in Utterances :
       /\ WF_vars(TranscribeSettles(u))
       /\ WF_vars(DetectSettles(u))
       /\ WF_vars(TranslateSettles(u))

(* ------------------- the pure functions, called alone ------------------ *)
\* all sequences over `alphabet` of length at most n
SeqsUpTo(alphabet, n) == UNION { [ 1..k -> alphabet ] : k \in 0..n }

CodeAlphabet == { "z", "Z", "h", "H", "e", "N", "i", "t", "-" }

\* the language codes and other values the normalizer is called with
CodeInputs ==
  SeqsUpTo(CodeAlphabet, MaxCodeLen)
    \cup { NULL, EN, IT, ZH, AUTO,
           << "z", "h", "-", "C", "N" >>, << "z", "h", "-", "t", "w" >>,
           << "Z", "H", "-", "H", "a", "n", "s" >>, << "e", "n", "-", "U", "S" >>,
           << "j", "a" >> }
    \cup NonTextFalsy \cup NonTextTruthy

TextAlphabet == { "a", "B", " ", ".", "?", "1", "u00e8", "u5b57" }

TextExamples ==
  { << "H", "e", "l", "l", "o", ",", " ", "h", "o", "w", " ", "a", "r",
       "e", " ", "y", "o", "u", " ", "t", "o", "d", "a", "y", "?" >>,
    << "T", "h", "a", "n", "k", "s", " ", "f", "o", "r", " ", "w", "a",
       "t", "c", "h", "i", "n", "g", "!" >>,
    << "T", "H", "A", "N", "K", "S", " ", "F", "O", "R", " ", "W", "A",
       "T", "C", "H", "I", "N", "G" >>,
    << "p", "l", "e", "a", "s", "e", " ", "s", "u", "b", "s", "c", "r",
       "i", "b", "e", " ", "n", "o", "w" >>,
    << "U", "m", "." >>,
    << "u", "m" >>,
    << "H", "m", "m" >>,
    << "B", "E", "E", "P" >>,
    << "a", "a", "a", "a", "a", "a" >>,
    << "c", "a", "l", "l", " ", "m", "e", " ", "a", "t", " ", "1", ":",
       "2", "3" >>,
    << "1", ":", "2", "3", " ", "a" >>,
    << "s", "e", "e", " ", "[", "m", "u", "s", "i", "c", "]", " ", "h",
       "e", "r", "e" >>,
    << "g", "o", " ", "t", "o", " ", "w", "w", "w", ".", "e", "x", "a",
       "m", "p", "l", "e", ".", "c", "o", "m" >>,
    << "@", "b", "o", "b", " ", "h", "i" >>,
    << "#", "t", "a", "g", " ", "h", "i" >>,
    << "h", "i", " ", " ", " ", " ", " ", "t", "h", "e", "r", "e" >>,
    << "u3053", "u3093", "u306b", "u3061", "u306f", " ", "h", "e", "l",
       "l", "o", " ", "t", "h", "e", "r", "e" >>,
    << "u4f60", "u597d", "u5417" >>,
    << "1", "2", "3", "4", "5" >>,
    << "o", "k" >>,
    << "a", " ", "." >>,
    << "u00e8", "u00e8" >>,
    << "?", "!", "?", "!", "?", "!", " ", "a" >>,
    << "a", "b", "u000a", "u000a", "u000a", "u000a", "u000a", "c", "d" >>,
    << " ", " ", "C", "i", "a", "o", "!", " ", " " >> }

\* the texts and other values the validator is called with
TextInputs ==
  SeqsUpTo(TextAlphabet, MaxTextLen) \cup TextExamples \cup TranscriptPool
    \cup { NULL } \cup NonTextFalsy \cup NonTextTruthy

DetectAlphabet == { "z", "h", "c", "i", "e", "n", "t", "Z", "." }

\* replies that name a language outside the supported set
OtherLanguageReplies ==
  { << "j", "a" >>,
    << "f", "r" >>,
    << "F", "r", "e", "n", "c", "h" >>,
    << "J", "a", "p", "a", "n", "e", "s", "e" >>,
    << "G", "e", "r", "m", "a", "n" >> }

\* the message contents detectLanguageWithOpenAI reads
DetectInputs ==
  SeqsUpTo(DetectAlphabet, MaxCodeLen) \cup DetectReplyPool
    \cup OtherLanguageReplies
    \cup { << "C", "h", "i", "n", "e", "s", "e" >>,
           << "Z", "H", "." >>,
           << "z", "h", "-", "T", "W" >>,
           << "E", "n", "g", "l", "i", "s", "h" >>,
           << "T", "h", "e", " ", "l", "a", "n", "g", "u", "a", "g", "e", " ", "i", "s", ":", " ", "i", "t" >>,
           << "T", "r", "a", "d", "i", "t", "i", "o", "n", "a", "l", " ", "C", "h", "i", "n", "e", "s", "e" >>,
           << "z", "h", "-", "e", "n" >>,
           << "M", "a", "n", "d", "a", "r", "i", "n", " ", "(", "c", "h", "i", ")" >> }

ProbeOf(fn, arg) == [ fn |-> fn, arg |-> arg, done |-> FALSE, out |-> NULL ]

\* langCode.toLowerCase() where langCode has no such method: TypeError
normalizeLanguageCodeThrows(langCode) == Truthy(langCode) /\ ~IsText(langCode)

isSupportedLanguageThrows(langCode) ==
  Truthy(langCode) /\ normalizeLanguageCodeThrows(langCode)

InitPure ==
  /\ variant \in { "openai", "google" }
  /\ now = 0
  /\ files = {}
  /\ utt = [ u \in Utterances |-> Idle ]
  /\ probe \in { ProbeOf("normalizeLanguageCode", c) : c \in CodeInputs }
          \cup { ProbeOf("isSupportedLanguage", c) : c \in CodeInputs }
          \cup { ProbeOf("isValidTranscription", t) : t \in TextInputs }
          \cup { ProbeOf("detectLanguageWithOpenAI", d) : d \in DetectInputs }

\* normalizeLanguageCode(arg), and normalizeLanguageCode of what it returned
CallNormalize ==
  /\ probe.fn = "normalizeLanguageCode"
  /\ ~probe.done
  /\ probe' =
       [probe EXCEPT !.done = TRUE,
          !.out = IF normalizeLanguageCodeThrows(probe.arg)
                    THEN [ threw |-> TRUE ]
                    ELSE LET once == normalizeLanguageCode(probe.arg)
                         IN  [ threw |-> FALSE, value |-> once,
                               again |-> normalizeLanguageCode(once) ]]
  /\ UNCHANGED << variant, now, files, utt >>

\* isSupportedLanguage(arg)
CallSupported ==
  /\ probe.fn = "isSupportedLanguage"
  /\ ~probe.done
  /\ probe' =
       [probe EXCEPT !.done = TRUE,
          !.out = IF isSupportedLanguageThrows(probe.arg)
                    THEN [ threw |-> TRUE ]
                    ELSE [ threw |-> FALSE,
                           value |-> isSupportedLanguage(probe.arg) ]]
  /\ UNCHANGED << variant, now, files, utt >>

\* isValidTranscription(arg) inside transcribeAudio, and what transcribeAudio
\* returns after it
CallValidate ==
  /\ probe.fn = "isValidTranscription"
  /\ ~probe.done
  /\ probe' =
       [probe EXCEPT !.done = TRUE,
          !.out = [ rule |-> rejectingRule(variant, probe.arg),
                    valid |-> isValidTranscription(variant, probe.arg),
                    returned |-> transcribeAudioReturn(variant, probe.arg) ]]
  /\ UNCHANGED << variant, now, files, utt >>

\* detectLanguageWithOpenAI from the reply on, and the test translateText
\* makes on what it returned
CallDetect ==
  /\ probe.fn = "detectLanguageWithOpenAI"
  /\ ~probe.done
  /\ probe' =
       [probe EXCEPT !.done = TRUE,
          !.out = LET languageDetection == detectLanguageWithOpenAI(probe.arg)
                  IN  [ value |-> languageDetection,
                        supported |->
                          /\ Truthy(languageDetection)
                          /\ isSupportedLanguage(
                               normalizeLanguageCode(languageDetection)) ]]
  /\ UNCHANGED << variant, now, files, utt >>

NextPure ==
  \/ CallNormalize
  \/ CallSupported
  \/ CallValidate
  \/ CallDetect

SpecPure == InitPure /\ [][NextPure]_vars

(* ------------------------- reading a run's state ---------------------- *)
CallsOf(r, op) == { k \in 1..Len(r.calls) : r.calls[k].op = op }

TranslateCallsTo(r, targetLang) ==
  { k \in CallsOf(r, "translate") : r.calls[k].target = targetLang }

\* the transcription call of the run has resolved with a text
HasTranscript(r) ==
  /\ r.calls # << >>
  /\ r.calls[1].settled
  /\ r.calls[1].reply.ok

RawText(r) == r.calls[1].reply.body

\* a transcription or detection call of the run was rejected
FatalCallFailed(r) ==
  \E k \in CallsOf(r, "transcribe") \cup CallsOf(r, "detect") :
    r.calls[k].settled /\ ~r.calls[k].reply.ok

IsErrorPayload(p) == p.type = "error" \/ p.status = 500

\* the validator's verdict (the rejecting rule, 0: accepted) on each
\* transcript of the pool, per variant
verdicts ==
  [ v \in { "openai", "google" } |->
      [ t \in TranscriptPool |-> rejectingRule(v, t) ] ]

SameLanguage(a, b) == normalizeLanguageCode(a) = normalizeLanguageCode(b)

(* ------------------------------- claims ------------------------------- *)
\* C1 (as claimed): the step that completes a run leaves the run's temporary
\* audio file deleted, on every exit path.
C1_TempFileDeletedOnCompletion ==
  [][ \A u \in Utterances :
        (utt[u].pc # "done" /\ utt'[u].pc = "done")
          => utt'[u].tempFilePath \notin files' ]_vars

\* C2 (as claimed): every completed utterance has had at least one payload
\* sent to its caller.
C2_OutcomeAlwaysSent ==
  \A u \in Utterances : utt[u].pc = "done" => Len(utt[u].sent) >= 1

\* C2 (amended): every completed upload has had exactly one response; a
\* completed WebSocket chunk has had a payload sent exactly when it ended as
\* translated or its catch block ran, and nothing otherwise.
C2_PayloadPerChannel ==
  \A u \in Utterances :
    utt[u].pc = "done" =>
      /\ utt[u].channel = "upload" => Len(utt[u].sent) = 1
      /\ utt[u].channel = "ws" =>
           (utt[u].sent # << >>
              <=> (utt[u].branch = "translated" \/ utt[u].threw))

\* a WebSocket chunk completed as no valid speech with nothing sent
C2_SilentChunk ==
  \E u \in Utterances :
    /\ utt[u].pc = "done"
    /\ utt[u].channel = "ws"
    /\ utt[u].branch = "no_valid_speech"
    /\ utt[u].sent = << >>

\* C3 (as claimed): no utterance ever has a second payload sent after its
\* first.
C3_AtMostOnePayload ==
  \A u \in Utterances : Len(utt[u].sent) <= 1

\* C4: whenever translateText has returned a translation set, its key set is
\* exactly TARGET_LANGUAGES, and so is the key set of the map sent.
C4_KeySetIsTargets ==
  \A u \in Utterances :
    utt[u].branch = "translated" =>
      /\ DOMAIN utt[u].translations = Targets
      /\ \A n \in 1..Len(utt[u].sent) :
           utt[u].sent[n].sourceText # NULL
             => DOMAIN utt[u].sent[n].translations = Targets

\* a translation set was returned in which the zh call failed and the en
\* call succeeded
C4_MixedResult ==
  \E u \in Utterances :
    /\ utt[u].branch = "translated"
    /\ utt[u].detectedLanguage = IT
    /\ utt[u].translations[ZH] = TranslationError
    /\ utt[u].translations[EN] # TranslationError

\* C5: in the fan-out, a target canonically equal to the source gets the
\* input text and no translation call; every other target gets exactly one
\* translation call, for the pair (source, target).
C5_VerbatimOrOneCall ==
  \A u \in Utterances : \A t \in Targets :
    LET r == utt[u]
        n == Cardinality(TranslateCallsTo(r, t))
    IN  r.detectedLanguage # NULL =>
          IF SameLanguage(r.detectedLanguage, t)
            THEN /\ n = 0
                 /\ t \in DOMAIN r.translations => r.translations[t] = r.transcription
                 /\ r.branch = "translated" => t \in DOMAIN r.translations
            ELSE /\ n <= 1
                 /\ r.branch = "translated" => n = 1
                 /\ \A k \in TranslateCallsTo(r, t) :
                      r.calls[k].language = r.detectedLanguage

\* the provider variant detected zh-CN: the zh slot is the text, it and en
\* were translated
C5_RegionalVariantVerbatim ==
  \E u \in Utterances :
    /\ utt[u].branch = "translated"
    /\ utt[u].detectedLanguage = << "z", "h", "-", "C", "N" >>
    /\ utt[u].translations[ZH] = utt[u].transcription
    /\ Cardinality(CallsOf(utt[u], "translate")) = 2

\* C6: a failed translation call does not make translateText raise; its slot
\* holds the sentinel, the other targets' calls are still issued, and every
\* slot of a resolved call holds what that call returned.
C6_PartialFailureIsolated ==
  \A u \in Utterances :
    LET r == utt[u]
    IN  /\ \A k \in CallsOf(r, "translate") :
             r.calls[k].settled =>
               /\ r.calls[k].target \in DOMAIN r.translations
               /\ r.translations[r.calls[k].target] =
                    IF ~r.calls[k].reply.ok THEN TranslationError
                    ELSE IF variant = "openai" THEN trim(r.calls[k].reply.body)
                    ELSE r.calls[k].reply.body
        /\ (r.pc = "done" /\ CallsOf(r, "translate") # {}) =>
             /\ r.branch = "translated"
             /\ \A t \in Targets :
                  ~SameLanguage(r.detectedLanguage, t)
                    => TranslateCallsTo(r, t) # {}

\* the first translation call of a run failed, the next one was issued and
\* resolved, and the run ended as translated
C6_FailedThenResolved ==
  \E u \in Utterances :
    /\ utt[u].branch = "translated"
    /\ \E k1, k2 \in CallsOf(utt[u], "translate") :
         /\ k1 < k2
         /\ ~utt[u].calls[k1].reply.ok
         /\ utt[u].calls[k2].reply.ok
         /\ utt[u].translations[utt[u].calls[k1].target] = TranslationError
         /\ utt[u].translations[utt[u].calls[k2].target] # TranslationError

\* C7 (as claimed): a run whose transcription or detection call was rejected
\* ends in the error outcome, and an error payload is sent.
C7_FatalFailureReported ==
  \A u \in Utterances :
    (utt[u].pc = "done" /\ FatalCallFailed(utt[u])) =>
      /\ utt[u].branch = "error"
      /\ \E n \in 1..Len(utt[u].sent) : IsErrorPayload(utt[u].sent[n])

\* C8: a transcription that is empty or whitespace-only ends the run as no
\* speech, with no detection and no translation call.
C8_BlankIsNoSpeech ==
  \A u \in Utterances :
    (HasTranscript(utt[u]) /\ trim(RawText(utt[u])) = << >>) =>
      /\ utt[u].pc = "done"
      /\ utt[u].branch = "no_valid_speech"
      /\ Len(utt[u].calls) = 1

\* a whitespace-only transcription was returned and the run is over
C8_WhitespaceTranscript ==
  \E u \in Utterances :
    /\ HasTranscript(utt[u])
    /\ RawText(utt[u]) # << >>
    /\ trim(RawText(utt[u])) = << >>
    /\ utt[u].pc = "done"

\* C9: a transcript the validator rejects stops the run: no detection call, no
\* translation call, no translated outcome; every detection or translation
\* call is made on the transcript, which the validator accepted.
C9_RejectedStops ==
  \A u \in Utterances :
    LET r == utt[u]
    IN  /\ (HasTranscript(r) /\ RawText(r) = Subscribe) =>
             Len(r.calls) = 1 /\ r.branch = "no_valid_speech"
        /\ (HasTranscript(r) /\ verdicts[variant][RawText(r)] # 0) =>
             Len(r.calls) = 1 /\ r.branch # "translated"
        /\ Len(r.calls) > 1 =>
             /\ HasTranscript(r)
             /\ r.transcription = RawText(r)
             /\ verdicts[variant][RawText(r)] = 0

\* 'Subscribe to my channel' was transcribed and the run is over
C9_SubscribeTranscript ==
  \E u \in Utterances :
    /\ HasTranscript(utt[u])
    /\ RawText(utt[u]) = Subscribe
    /\ utt[u].pc = "done"
    /\ utt[u].sent = << >>

\* C10 (as claimed): a translation call, and a translated outcome, only ever
\* has a source language of the supported set.
C10_UnsupportedAbandoned ==
  \A u \in Utterances :
    /\ \A k \in CallsOf(utt[u], "translate") :
         normalizeLanguageCode(utt[u].calls[k].language) \in supportedNormalized
    /\ utt[u].branch = "translated" =>
         normalizeLanguageCode(utt[u].detectedLanguage) \in supportedNormalized

\* the client sent a hint that names a language
HasLanguageHint(r) == Truthy(r.hint) /\ r.hint # AUTO

\* C11 (as stated): with a hint that is present and not 'auto' the detection
\* capability is not invoked and every translation call carries the
\* normalized hint as its source language.
C11_HintSkipsDetection ==
  \A u \in Utterances :
    LET r == utt[u]
    IN  HasLanguageHint(r) =>
          /\ CallsOf(r, "detect") = {}
          /\ \A k \in CallsOf(r, "translate") :
               r.calls[k].language = normalizeLanguageCode(r.hint)

\* C11 (amended): the hint takes no part in detection. translateText is
\* called with 'auto' whatever the hint; the detection capability is invoked
\* for every transcript that passes the validator, and for no other; every
\* translation call carries the language read from the detection reply.
C11_DetectionWhateverHint ==
  \A u \in Utterances :
    LET r == utt[u]
    IN  /\ (CallsOf(r, "detect") # {}) <=>
             (HasTranscript(r) /\ verdicts[variant][RawText(r)] = 0)
        /\ \A k \in CallsOf(r, "detect") :
             /\ k = 2
             /\ r.calls[k].language = AUTO
        /\ \A k \in CallsOf(r, "translate") :
             /\ r.calls[2].settled /\ r.calls[2].reply.ok
             /\ r.calls[k].language \in
                  { detectLanguageWithOpenAI(r.calls[2].reply.body),
                    r.calls[2].reply.body, AUTO }

\* C11 witness: a run whose hint is 'it' has asked the detection capability
\* and translates from the detected 'en'
C11_HintedRunDetects ==
  \E u \in Utterances :
    LET r == utt[u]
    IN  /\ r.hint = IT
        /\ CallsOf(r, "detect") # {}
        /\ \E k \in CallsOf(r, "translate") : r.calls[k].language = EN

\* C12: the transcription request carries the hint, unchanged, exactly when
\* the hint is present, non-empty and not 'auto'; otherwise it carries no
\* language parameter.
C12_HintForwardedUnlessAuto ==
  \A u \in Utterances :
    LET r == utt[u]
    IN  r.calls # << >> =>
          /\ r.calls[1].op = "transcribe"
          /\ IF r.hint \notin { NULL, << >>, AUTO }
               THEN r.calls[1].language = r.hint
               ELSE r.calls[1].language = NULL

\* C12 witness: a chunk whose hint is 'auto' went to the capability without
\* a language parameter
C12_AutoNotForwarded ==
  \E u \in Utterances :
    LET r == utt[u]
    IN  /\ r.hint = AUTO
        /\ r.channel = "ws"
        /\ r.calls # << >>
        /\ r.calls[1].settled
        /\ r.calls[1].language = NULL

\* the handler run is between its first await and its end
InFlight(r) == r.pc \in { "transcribing", "detecting", "translating" }

\* C13 (as stated): no two runs in flight at the same time use the same
\* temp file path.
C13_TempPathsDisjoint ==
  \A u, w \in Utterances :
    (u # w /\ InFlight(utt[u]) /\ InFlight(utt[w])) =>
      utt[u].tempFilePath # utt[w].tempFilePath

\* what the run sends when no other run touches its file
aloneSent(r) ==
  IF r.branch = "error"
    THEN catchPayloads(r.channel, FALSE)
  ELSE IF r.branch = "no_file"
    THEN << ErrorPayload("json", 400, "No audio file provided") >>
    ELSE branchPayloads(r.channel, r.branch, r.detectedLanguage,
                        r.transcription, r.translations)

\* C14 (as stated): when a transcription or detection call of one utterance
\* has failed, every other utterance ends as it would have ended alone.
C14_FailureDoesNotSpread ==
  \A u, w \in Utterances :
    (u # w /\ FatalCallFailed(utt[w]) /\ utt[u].pc = "done") =>
      utt[u].sent = aloneSent(utt[u])

(* --------------------- claims on the pure functions -------------------- *)
Called(fn) == probe.fn = fn /\ probe.done

\* C15: normalizeLanguageCode applied to its own result returns that result;
\* an empty or absent code gives null, a code whose lower-cased form starts
\* with 'zh' gives 'zh', any other code gives its lower-cased form.
C15_NormalizeIdempotent ==
  (Called("normalizeLanguageCode") /\ ~probe.out.threw) =>
    /\ probe.out.again = probe.out.value
    /\ IF probe.arg \in { NULL, << >> } \cup NonTextFalsy
         THEN probe.out.value = NULL
       ELSE IF startsWith(toLowerCase(probe.arg), << "z", "h" >>)
         THEN probe.out.value = << "z", "h" >>
         ELSE probe.out.value = toLowerCase(probe.arg)

\* C15 witness: 'zh-CN' was normalized to 'zh', and 'zh' to itself
C15_RegionalChinese ==
  /\ Called("normalizeLanguageCode")
  /\ probe.arg = << "z", "h", "-", "C", "N" >>
  /\ probe.out.value = ZH
  /\ probe.out.again = ZH

\* C16 (as stated): neither function raises, whatever the value it is given,
\* and isSupportedLanguage is true exactly for the codes that normalize to
\* 'en', 'it' or 'zh'.
C16_SupportedTotal ==
  (Called("normalizeLanguageCode") \/ Called("isSupportedLanguage")) =>
    /\ ~probe.out.threw
    /\ Called("isSupportedLanguage") =>
         (probe.out.value <=> normalizeLanguageCode(probe.arg) \in { EN, IT, ZH })

\* the cleaned form of a text: trimmed, lower-cased, trailing .,!?;: stripped
cleaned(text) == stripTrailingPunct(toLowerCase(trim(text)))

SupportedScript ==
  AsciiLower \cup AsciiUpper \cup ItalianAccented_openai \cup CJKIdeograph

Rule1(text) == ~IsText(text) \/ Len(cleaned(text)) < 2

Rule2(text) == ~HasAny(cleaned(text), SupportedScript)

Rule3(v, text) ==
  \E n \in 1..Len(hallucination_patterns(v)) :
    PatternTest(hallucination_patterns(v)[n], cleaned(text))

Rule4(text) == 10 * letterCount(cleaned(text)) < 3 * Len(cleaned(text))

Rule5(text) ==
  LET c == cleaned(text)
      inWord == { i \in 1..Len(c) : c[i] \notin WhiteSpace }
  IN  /\ inWord # {}
      /\ \A i \in SetMin(inWord)..SetMax(inWord) : i \in inWord
      /\ \/ Cardinality(inWord) < 2
         \/ \A i \in inWord : c[i] \in Digit

\* the first of the five rules that matches, 0 when none does
firstMatching(v, text) ==
  IF Rule1(text) THEN 1
  ELSE IF Rule2(text) THEN 2
  ELSE IF Rule3(v, text) THEN 3
  ELSE IF Rule4(text) THEN 4
  ELSE IF Rule5(text) THEN 5
  ELSE 0

\* C17: in src/server.js the validator rejects by the first of the five rules
\* that matches, accepts exactly when none matches, and transcribeAudio hands
\* on the original text of an accepted transcription (null otherwise).
C17_FiveRulesInOrder ==
  (Called("isValidTranscription") /\ variant = "openai") =>
    /\ probe.out.rule = firstMatching(variant, probe.arg)
    /\ probe.out.valid <=> (firstMatching(variant, probe.arg) = 0)
    /\ probe.out.returned =
         (IF firstMatching(variant, probe.arg) = 0 THEN probe.arg ELSE NULL)

\* C17 witness: a text that differs from its cleaned form was accepted and
\* handed on as it was
C17_OriginalHandedOn ==
  /\ Called("isValidTranscription")
  /\ variant = "openai"
  /\ IsText(probe.arg)
  /\ probe.out.valid
  /\ probe.out.returned = probe.arg
  /\ probe.arg # cleaned(probe.arg)
  /\ Len(probe.arg) > MaxTextLen

\* C18 (as stated): in both variants a text whose cleaned form has fewer
\* than 2 characters is rejected.
C18_ShortCleanedRejected ==
  (Called("isValidTranscription") /\ IsText(probe.arg)
     /\ Len(cleaned(probe.arg)) < 2) =>
    ~probe.out.valid

Hello ==
  << "H", "e", "l", "l", "o", ",", " ", "h", "o", "w", " ", "a", "r", "e", " ",
     "y", "o", "u", " ", "t", "o", "d", "a", "y", "?" >>

\* C19 (as stated): in both variants a text with a character of a supported
\* script whose cleaned form matches a pattern of the variant's list is
\* rejected; 'Hello, how are you today?' is accepted.
C19_ListedPatternRejected ==
  Called("isValidTranscription") =>
    /\ (IsText(probe.arg) /\ ~Rule2(probe.arg) /\ Rule3(variant, probe.arg)) =>
         ~probe.out.valid
    /\ probe.arg = Hello => probe.out.valid

(* ------------------------ claims on the ordering ----------------------- *)
\* the payload that carries a translation set
IsTranslated(p) == p.sourceText # NULL

\* C20: within one run only the call issued last can be unsettled; the
\* detection call is issued only after the transcription has resolved and
\* the validator has accepted it; a translation call is issued only after
\* the detection call has resolved (in src/server.js: with a language of the
\* supported set); the translation set is sent only when every call has
\* settled and every target's slot holds a translation, the input text or
\* the error sentinel.
C20_StagesInSequence ==
  \A u \in Utterances :
    LET r == utt[u]
    IN  /\ \A k \in 1..(Len(r.calls) - 1) : r.calls[k].settled
        /\ \A k \in CallsOf(r, "detect") :
             /\ k = 2
             /\ r.calls[1].op = "transcribe"
             /\ r.calls[1].reply.ok
             /\ verdicts[variant][RawText(r)] = 0
        /\ \A k \in CallsOf(r, "translate") :
             /\ k > 2
             /\ r.calls[2].op = "detect"
             /\ r.calls[2].reply.ok
             /\ variant = "openai" =>
                  normalizeLanguageCode(
                    detectLanguageWithOpenAI(r.calls[2].reply.body))
                      \in { EN, IT, ZH }
        /\ \A n \in 1..Len(r.sent) :
             IsTranslated(r.sent[n]) =>
               /\ \A k \in 1..Len(r.calls) : r.calls[k].settled
               /\ CallsOf(r, "translate") # {}
               /\ DOMAIN r.sent[n].translations = Targets
               /\ \A t \in Targets :
                    r.sent[n].translations[t] \in
                      { r.transcription, TranslationError,
                        translatedText(variant, TranslationFor(t)) }

\* C20 witness: a translation set was sent after the transcription, the
\* detection and two translation calls had settled one after the other
C20_AllStagesDone ==
  \E u \in Utterances :
    LET r == utt[u]
    IN  /\ variant = "openai"
        /\ \E n \in 1..Len(r.sent) : IsTranslated(r.sent[n])
        /\ Len(r.calls) = 4
        /\ \A k \in 1..4 : r.calls[k].settled

(* ------------------------- claims on the fan-out ----------------------- *)
\* the translation calls of the run that have not settled
Outstanding(r) == { k \in CallsOf(r, "translate") : ~r.calls[k].settled }

\* the position of a target in TARGET_LANGUAGES
TargetIndex(t) == CHOOSE i \in 1..Len(TARGET_LANGUAGES) : TARGET_LANGUAGES[i] = t

\* a target after the current one still needs a translation call
MoreToTranslate(r) ==
  \E j \in (r.target + 1)..Len(TARGET_LANGUAGES) :
    ~SameLanguage(r.detectedLanguage, TARGET_LANGUAGES[j])

\* C21 (as stated): while the translation call for one target is outstanding
\* and another target still needs one, a step that issues the other call, so
\* that two translation calls of the run are in flight, is possible.
C21_SecondCallCanBeIssued ==
  \A u \in Utterances :
    (utt[u].pc = "translating" /\ MoreToTranslate(utt[u])) =>
      ENABLED (Next /\ Cardinality(Outstanding(utt'[u])) >= 2)

\* C21 (amended): the translation calls of one run are issued one at a time,
\* in the order of TARGET_LANGUAGES, each only after the one before it has
\* settled; at most one translation call of a run is in flight.
C21_OneCallAtATime ==
  \A u \in Utterances :
    LET r == utt[u]
    IN  /\ Cardinality(Outstanding(r)) <= 1
        /\ \A k, m \in CallsOf(r, "translate") :
             k < m =>
               /\ r.calls[k].settled
               /\ TargetIndex(r.calls[k].target) < TargetIndex(r.calls[m].target)

\* C21 witness: the second translation call of a run is outstanding, the
\* first has settled
C21_SecondCallAfterFirst ==
  \E u \in Utterances :
    LET r == utt[u]
    IN  /\ Len(r.calls) = 4
        /\ r.calls[3].op = "translate" /\ r.calls[3].settled
        /\ r.calls[4].op = "translate" /\ ~r.calls[4].settled

\* C22 (as stated): every payload that carries a translation set reports as
\* source language one of 'en', 'it', 'zh' and as source text the
\* transcription as the capability returned it.
C22_CanonicalSourceReported ==
  \A u \in Utterances :
    \A n \in 1..Len(utt[u].sent) :
      LET p == utt[u].sent[n]
      IN  IsTranslated(p) =>
            /\ p.sourceLanguage \in { EN, IT, ZH }
            /\ p.sourceText = RawText(utt[u])

\* the targets whose slot is the input text, not the result of a call
VerbatimTargets(r) ==
  { t \in Targets : SameLanguage(r.detectedLanguage, t) }

\* C24 (as stated): every payload that carries a translation set has exactly
\* one slot holding the source text, that of the detected language, and the
\* run has issued exactly two translation calls, one per other target.
C24_OneVerbatimTwoCalls ==
  \A u \in Utterances :
    LET r == utt[u]
    IN  (\E n \in 1..Len(r.sent) : IsTranslated(r.sent[n])) =>
          /\ Cardinality(VerbatimTargets(r)) = 1
          /\ \A t \in VerbatimTargets(r) : r.translations[t] = r.transcription
          /\ Cardinality(CallsOf(r, "translate")) = 2
          /\ \A t \in Targets \ VerbatimTargets(r) :
               Cardinality(TranslateCallsTo(r, t)) = 1

(* ------------------------ claims on the detector ----------------------- *)
\* the reply lower-cased, with every character but a-z and '-' removed
stripped(reply) ==
  SelectSeq(toLowerCase(reply), LAMBDA c : c \in AsciiLower \cup { "-" })

\* C23 (as stated): a reply whose stripped form contains 'zh' or 'chi' gives
\* 'zh' whatever else it contains, and a reply that names a language outside
\* the supported set gives a code that the supported test rejects.
C23_NoisyReplyMapped ==
  Called("detectLanguageWithOpenAI") =>
    /\ (\/ includes(stripped(probe.arg), << "z", "h" >>)
        \/ includes(stripped(probe.arg), << "c", "h", "i" >>))
         => probe.out.value = << "z", "h" >>
    /\ probe.arg \in OtherLanguageReplies => ~probe.out.supported

(* ------------------------- claims on termination ----------------------- *)
\* one transcription call, at most one detection call, at most one
\* translation call per target
CallsBounded(r) ==
  /\ Cardinality(CallsOf(r, "transcribe")) <= 1
  /\ Cardinality(CallsOf(r, "detect")) <= 1
  /\ \A t \in Targets : Cardinality(TranslateCallsTo(r, t)) <= 1
  /\ Len(r.calls) <= 2 + Len(TARGET_LANGUAGES)

\* C25: when every issued capability call settles, every handler run that
\* has started reaches its end, and at no time has a run issued more than
\* one transcription, one detection and one translation call per target.
C25_RunCompletes ==
  /\ \A u \in Utterances : (utt[u].pc # "idle") ~> (utt[u].pc = "done")
  /\ [](\A u \in Utterances : CallsBounded(utt[u]))

\* C25 witness: a run has ended after a transcription, a detection and two
\* translation calls, one of which failed
C25_EndedAfterFailedCall ==
  \E u \in Utterances :
    LET r == utt[u]
    IN  /\ r.pc = "done"
        /\ Cardinality(CallsOf(r, "translate")) = 2
        /\ \E k \in CallsOf(r, "translate") : ~r.calls[k].reply.ok
====
